---- MODULE Spec2Model ----
(***************************************************************************)
(* rust-jack: the closure-based process handler adapter                    *)
(* (src/client/handler_impls.rs) and the midi_sine example                 *)
(* (examples/midi_sine.rs).                                                *)
(*                                                                         *)
(* Spec      the adapter: new / with_buffer_fn / with_process_fn, then the *)
(*           audio server invoking process and buffer_size.                *)
(* SpecCopy  MidiCopy::from applied to every bounded RawMidi.              *)
(* SpecMidi  the midi_sine example: the process closure, the out-channel   *)
(*           to the printing thread, the in-channel of frequency requests, *)
(*           and main's deactivate and return.                             *)
(***************************************************************************)
EXTENDS Integers, Sequences, FiniteSets, TLC

(* ------------------------------ bounds --------------------------------- *)
\* the adapter's owned state T ranges over 0..MaxState
MaxState == 3
\* how many with_buffer_fn / with_process_fn calls one build chain makes
MaxWith == 3
\* how many callbacks the server makes on one activated handler
MaxCalls == 5
\* the block sizes (Frames) the server presents are 1..MaxFrames
MaxFrames == 2
\* a RawMidi carries 0..MaxMsgLen bytes
MaxMsgLen == 4
\* blocks the server runs before the model stops it
MaxBlocks == 2
\* MIDI events the input port presents over one run, in blocks of any size
MaxEvents == 3
\* capacity of the out-channel, sync_channel(64) in the example, scaled down
OutCap == 2
\* capacity of the in-channel, bounded(1_000_000) in the example, scaled down
InCap == 2
\* frequency requests a control producer offers in one run
MaxPush == 2

(* --------------------------- program constants ------------------------- *)
\* const MAX_MIDI: usize = 3
MAX_MIDI == 3

(* --------------------------- the adapter ------------------------------- *)
VARIABLES
    handler,      \* the ClosureProcessHandler value: [inner, buffer_fn, process_fn]
    phase,        \* "built" | "activated" | "deactivated"
    nwith,        \* with_* calls made so far
    ncalls,       \* callbacks made so far
    supplied,     \* history: the behavior last passed to with_buffer_fn (b) / with_process_fn (p)
    init_inner,   \* history: the state given to new
    last,         \* history: the most recent callback: role, argument, state before, result
    quit_seen,    \* history: the process behavior has returned Quit
    relay_q,      \* the buffer of the channel a relaying process behavior sends into
    relay_got,    \* what the consumer of that channel has received, in order
    nproc         \* history: process invocations made so far

relayVars == <<relay_q, relay_got, nproc>>
adapterVars == <<handler, phase, nwith, ncalls, supplied, init_inner, last, quit_seen,
                 relayVars>>

(* --------------------------- MidiCopy::from ---------------------------- *)
VARIABLES
    raw,          \* the borrowed jack::RawMidi: [time, bytes]
    copy,         \* the MidiCopy made from it, or NoCopy
    interp        \* what the callback made of the copy, and the data indices it read

copyVars == <<raw, copy, interp>>

(* ------------------------ the midi_sine example ------------------------ *)
VARIABLES
    rtpc,         \* where the process closure stands: "idle" | "iter" | "drain" | "write"
    nblocks,      \* blocks the server has started
    n_frames,     \* ps.n_frames()
    remaining,    \* events midi_input.iter(ps) has still to yield in this block
    sender_q,     \* the out-channel's buffer (sender -> receiver)
    sender_alive, \* the closure, and with it the sender, has not been dropped
    rx_q,         \* the in-channel's buffer (tx -> rx)
    frequency,    \* in mHz
    amplitude,    \* in tenths
    time,         \* in frames (multiples of frame_t)
    midi_out,     \* what the block wrote to midi_output
    audio_out,    \* what the block wrote to audio_output
    cpc,          \* the printing thread: "recv" | "done" | "killed"
    printed,      \* the ids of the copies the printing thread has printed
    mpc,          \* main: "wait" | "deactivated" | "exited"
    presented,    \* history: events the input port has held, over all blocks
    offered,      \* history: copies offered to the out-channel
    dropped,      \* history: copies try_send refused
    closure_runs, \* history: invocations of the process closure
    npush,        \* history: frequency requests offered to the in-channel
    last_pushed,  \* history: the last request the in-channel accepted
    applied,      \* history: the last request the drain loop applied
    ndrain,       \* history: iterations the drain loop's body has run
    block_drained,\* history: the last request drained in the current block
    block_note_on \* history: a Note On set the frequency in the current block

rtVars == <<rtpc, nblocks, n_frames, remaining, frequency, amplitude, time,
            midi_out, audio_out, closure_runs, block_drained, block_note_on>>
outVars == <<sender_q, sender_alive, cpc, printed, presented, offered, dropped>>
inVars == <<rx_q, npush, last_pushed, applied, ndrain>>
midiVars == <<rtVars, outVars, inVars, mpc>>

vars == <<adapterVars, copyVars, midiVars>>

\* jack::Control
Continue == "Continue"
Quit == "Quit"
Control == {Continue, Quit}

States == 0..MaxState
FrameSizes == 1..MaxFrames

\* fn default_buffer_fn<T>(_: &mut T, _: &Client, _: Frames) -> Control
default_buffer_fn(t, size) == [inner |-> t, ret |-> Continue]

\* fn default_process_fn<T>(_: &mut T, _: &Client, _: &ProcessScope) -> Control
default_process_fn(t, ps) == [inner |-> t, ret |-> Continue]

\* impl ProcessHandler for (): process returns Continue and holds no state
unit_process(ps) == Continue

\* The behaviors a caller passes as F: FnMut(&mut T, &Client, &ProcessScope) -> Control.
\*   p_inc     increments the state (saturating at MaxState), continues
\*   p_quit    leaves the state, asks for deactivation
\*   p_limit   increments the state and asks for deactivation once it reaches MaxState
\*   p_relay   increments the state, sends the new state into a channel, continues
UserProcessFns == {"p_inc", "p_quit", "p_limit", "p_relay"}
\* The behaviors a caller passes as F: FnMut(&mut T, &Client, Frames) -> Control.
\*   b_set     stores the new buffer size in the state, continues
\*   b_quit    leaves the state, asks for deactivation
UserBufferFns == {"b_set", "b_quit"}

Inc(t) == IF t < MaxState THEN t + 1 ELSE t

\* (self.process_fn)(&mut self.inner, c, ps): the call of the stored behavior
CallProcessFn(f, t, ps) ==
    CASE f = "default_process_fn" -> default_process_fn(t, ps)
      [] f = "p_inc"   -> [inner |-> Inc(t), ret |-> Continue]
      [] f = "p_quit"  -> [inner |-> t, ret |-> Quit]
      [] f = "p_limit" -> [inner |-> Inc(t), ret |-> IF Inc(t) = MaxState THEN Quit ELSE Continue]
      [] f = "p_relay" -> [inner |-> t + 1, ret |-> Continue]

\* the capacity of the channel p_relay sends into: room for every invocation of a run
RelayCap == MaxCalls

\* what the call of behavior f on state t offers to its channel: p_relay offers the
\* state it has just incremented, the other behaviors hold no channel
RelayedBy(f, t, ps) ==
    IF f = "p_relay" THEN <<CallProcessFn(f, t, ps).inner>> ELSE <<>>

\* try_send of each offered value in turn into a buffer of capacity RelayCap
RelaySend(q, sent) ==
    IF sent = <<>> \/ Len(q) >= RelayCap THEN q ELSE Append(q, sent[1])

\* (self.buffer_fn)(&mut self.inner, c, size): the call of the stored behavior
CallBufferFn(f, t, size) ==
    CASE f = "default_buffer_fn" -> default_buffer_fn(t, size)
      [] f = "b_set"  -> [inner |-> IF size <= MaxState THEN size ELSE MaxState, ret |-> Continue]
      [] f = "b_quit" -> [inner |-> t, ret |-> Quit]

\* a constructor that installs a quitting per-block default
new_quit(state) ==
    [inner |-> state, buffer_fn |-> "default_buffer_fn", process_fn |-> "p_quit"]

\* ClosureProcessHandler::new(inner)
new(state) ==
    [inner |-> state, buffer_fn |-> "default_buffer_fn", process_fn |-> "default_process_fn"]

\* a with_buffer_fn that rebuilds the adapter from new, losing the process behavior
with_buffer_fn_reset(self, f) ==
    [inner |-> self.inner, buffer_fn |-> f, process_fn |-> "default_process_fn"]

\* ClosureProcessHandler::with_buffer_fn(self, f)
with_buffer_fn(self, f) ==
    [inner |-> self.inner, buffer_fn |-> f, process_fn |-> self.process_fn]

\* a with_process_fn that keeps the behavior it should replace
with_process_fn_keep(self, f) ==
    [inner |-> self.inner, buffer_fn |-> self.buffer_fn, process_fn |-> self.process_fn]

\* ClosureProcessHandler::with_process_fn(self, f)
with_process_fn(self, f) ==
    [inner |-> self.inner, buffer_fn |-> self.buffer_fn, process_fn |-> f]

\* a process that drops the behavior's directive and always continues
process_always_continue(self, ps) ==
    LET r == CallProcessFn(self.process_fn, self.inner, ps)
    IN  [self |-> [self EXCEPT !.inner = r.inner], ret |-> Continue,
         invoked |-> <<self.process_fn>>]

\* a process that calls the behavior on a copy of the state and discards the copy
process_on_copy(self, ps) ==
    LET r == CallProcessFn(self.process_fn, self.inner, ps)
    IN  [self |-> self, ret |-> r.ret, invoked |-> <<self.process_fn>>]

\* ProcessHandler::process for ClosureProcessHandler: one direct call of process_fn
process(self, ps) ==
    LET r == CallProcessFn(self.process_fn, self.inner, ps)
    IN  [self |-> [self EXCEPT !.inner = r.inner], ret |-> r.ret,
         invoked |-> <<self.process_fn>>]

\* a buffer_size that calls the behavior on a copy of the state and discards the copy
buffer_size_on_copy(self, size) ==
    LET r == CallBufferFn(self.buffer_fn, self.inner, size)
    IN  [self |-> self, ret |-> r.ret, invoked |-> <<self.buffer_fn>>]

\* ProcessHandler::buffer_size for ClosureProcessHandler: one direct call of buffer_fn
buffer_size(self, size) ==
    LET r == CallBufferFn(self.buffer_fn, self.inner, size)
    IN  [self |-> [self EXCEPT !.inner = r.inner], ret |-> r.ret,
         invoked |-> <<self.buffer_fn>>]

\* What the audio server does with a callback's directive: Continue keeps the
\* client activated for the next block, Quit deactivates it.
after_directive(ret) == IF ret = Quit THEN "deactivated" ELSE "activated"

NoCopy == [len |-> 0, data |-> <<>>, time |-> 0]
NoInterp == [reads |-> {}, amplitude |-> 0, frequency |-> 0, done |-> FALSE]
NoAudio == [frequency |-> 0, amplitude |-> 0, time |-> 0, frames |-> 0]

\* the variables of MidiCopy::from while another specification runs
CopyUnused ==
    /\ raw = [time |-> 0, bytes |-> <<>>]
    /\ copy = NoCopy
    /\ interp = NoInterp

\* the variables of the example while another specification runs
MidiUnused ==
    /\ rtpc = "idle" /\ nblocks = 0 /\ n_frames = 1 /\ remaining = 0
    /\ sender_q = <<>> /\ sender_alive = TRUE /\ rx_q = <<>>
    /\ frequency = 0 /\ amplitude = 0 /\ time = 0
    /\ midi_out = <<>> /\ audio_out = NoAudio
    /\ cpc = "recv" /\ printed = <<>> /\ mpc = "wait"
    /\ presented = 0 /\ offered = 0 /\ dropped = 0 /\ closure_runs = 0
    /\ npush = 0 /\ last_pushed = 0 /\ applied = 0 /\ ndrain = 0
    /\ block_drained = 0 /\ block_note_on = FALSE

NoCall == [role |-> "none", arg |-> 0, pre |-> 0, ret |-> Continue, invoked |-> <<>>]

Init ==
    /\ \E state \in States :
          /\ handler = new(state)
          /\ init_inner = state
    /\ phase = "built"
    /\ nwith = 0
    /\ ncalls = 0
    /\ supplied = [b |-> "none", p |-> "none"]
    /\ last = NoCall
    /\ quit_seen = FALSE
    /\ relay_q = <<>> /\ relay_got = <<>> /\ nproc = 0
    /\ CopyUnused
    /\ MidiUnused

\* handler = handler.with_buffer_fn(f)
WithBufferFn ==
    /\ phase = "built"
    /\ nwith < MaxWith
    /\ \E f \in UserBufferFns :
          /\ handler' = with_buffer_fn(handler, f)
          /\ supplied' = [supplied EXCEPT !.b = f]
    /\ nwith' = nwith + 1
    /\ UNCHANGED <<phase, ncalls, init_inner, last, quit_seen, relayVars>>
    /\ UNCHANGED <<copyVars, midiVars>>

\* handler = handler.with_process_fn(f)
WithProcessFn ==
    /\ phase = "built"
    /\ nwith < MaxWith
    /\ \E f \in UserProcessFns :
          /\ handler' = with_process_fn(handler, f)
          /\ supplied' = [supplied EXCEPT !.p = f]
    /\ nwith' = nwith + 1
    /\ UNCHANGED <<phase, ncalls, init_inner, last, quit_seen, relayVars>>
    /\ UNCHANGED <<copyVars, midiVars>>

\* client.activate_async(notification_handler, handler): the server owns the handler
Activate ==
    /\ phase = "built"
    /\ phase' = "activated"
    /\ UNCHANGED <<handler, nwith, ncalls, supplied, init_inner, last, quit_seen, relayVars>>
    /\ UNCHANGED <<copyVars, midiVars>>

\* the server's per-block callback; a Quit directive deactivates the client
ServerProcess ==
    /\ phase = "activated"
    /\ ncalls < MaxCalls
    /\ \E ps \in FrameSizes :
          LET r == process(handler, ps)
              b == CallProcessFn(handler.process_fn, handler.inner, ps)
          IN  /\ handler' = r.self
              /\ last' = [role |-> "process", arg |-> ps, pre |-> handler.inner,
                          ret |-> r.ret, invoked |-> r.invoked]
              /\ quit_seen' = (quit_seen \/ b.ret = Quit)
              /\ phase' = after_directive(r.ret)
              /\ relay_q' = RelaySend(relay_q, RelayedBy(handler.process_fn, handler.inner, ps))
    /\ ncalls' = ncalls + 1
    /\ nproc' = nproc + 1
    /\ UNCHANGED <<nwith, supplied, init_inner, relay_got>>
    /\ UNCHANGED <<copyVars, midiVars>>

\* the server's buffer-size callback; a Quit directive deactivates the client
ServerBufferSize ==
    /\ phase = "activated"
    /\ ncalls < MaxCalls
    /\ \E size \in FrameSizes :
          LET r == buffer_size(handler, size)
          IN  /\ handler' = r.self
              /\ last' = [role |-> "buffer_size", arg |-> size, pre |-> handler.inner,
                          ret |-> r.ret, invoked |-> r.invoked]
              /\ phase' = after_directive(r.ret)
    /\ ncalls' = ncalls + 1
    /\ UNCHANGED <<nwith, supplied, init_inner, quit_seen, relayVars>>
    /\ UNCHANGED <<copyVars, midiVars>>

\* active_client.deactivate(), called from outside the callback
Deactivate ==
    /\ phase = "activated"
    /\ phase' = "deactivated"
    /\ UNCHANGED <<handler, nwith, ncalls, supplied, init_inner, last, quit_seen, relayVars>>
    /\ UNCHANGED <<copyVars, midiVars>>

\* the consumer of the relay channel receives the oldest value
RelayRecv ==
    /\ relay_q # <<>>
    /\ relay_q' = Tail(relay_q)
    /\ relay_got' = Append(relay_got, Head(relay_q))
    /\ UNCHANGED <<handler, phase, nwith, ncalls, supplied, init_inner, last, quit_seen, nproc>>
    /\ UNCHANGED <<copyVars, midiVars>>

Next ==
    \/ WithBufferFn
    \/ WithProcessFn
    \/ Activate
    \/ ServerProcess
    \/ ServerBufferSize
    \/ Deactivate
    \/ RelayRecv

Spec == Init /\ [][Next]_vars

(* --------------------------- MidiCopy::from ---------------------------- *)
Min(a, b) == IF a < b THEN a ELSE b

\* the u8 values the model draws message bytes from
ByteVals == {64, 99, 127, 144}
\* every byte string of length 0..MaxMsgLen
ByteStrings == UNION {[1..k -> ByteVals] : k \in 0..MaxMsgLen}
\* jack::RawMidi { time, bytes }
RawMidis == [time : 0..1, bytes : ByteStrings]

\* a conversion that marks the whole array valid, whatever the source's length
MidiCopyFrom_full(midi) ==
    LET len == Min(MAX_MIDI, Len(midi.bytes))
    IN  [len |-> MAX_MIDI,
         data |-> [i \in 1..MAX_MIDI |-> IF i <= len THEN midi.bytes[i] ELSE 0],
         time |-> midi.time]

\* impl From<jack::RawMidi<'_>> for MidiCopy
\*   let len = min(MAX_MIDI, midi.bytes.len());
\*   let mut data = [0; MAX_MIDI];
\*   data[..len].copy_from_slice(&midi.bytes[..len]);
MidiCopyFrom(midi) ==
    LET len == Min(MAX_MIDI, Len(midi.bytes))
    IN  [len |-> len,
         data |-> [i \in 1..MAX_MIDI |-> IF i <= len THEN midi.bytes[i] ELSE 0],
         time |-> midi.time]

\* the variables of the adapter while another specification runs
AdapterUnused ==
    /\ nwith = 0 /\ ncalls = 0
    /\ supplied = [b |-> "none", p |-> "none"]
    /\ init_inner = 0 /\ last = NoCall /\ quit_seen = FALSE
    /\ relay_q = <<>> /\ relay_got = <<>> /\ nproc = 0

InitCopy ==
    /\ raw \in RawMidis
    /\ copy = NoCopy
    /\ interp = NoInterp
    /\ handler = new(0)
    /\ phase = "built"
    /\ AdapterUnused
    /\ MidiUnused

\* (2.0_f64).powf((key as f64 - 69.0) / 12.0) * 440.0, rounded to mHz, for the byte
\* values the model draws (ByteVals, the key 69 of MidiEvents) and for the 0 that
\* pads a short copy
NoteFreq(key) ==
    CASE key = 69  -> 440000
      [] key = 0   -> 8176
      [] key = 64  -> 329628
      [] key = 99  -> 2489016
      [] key = 127 -> 12543854
      [] key = 144 -> 33488072
      [] OTHER     -> 0

\* if c.data[0] == 144 { amplitude = 0.5; frequency = ... }
\* else if c.data[0] == 128 { amplitude = 0.0 }
on_event(c, freq, amp) ==
    IF c.data[1] = 144
    THEN [amplitude |-> 5, frequency |-> NoteFreq(c.data[2]), note_on |-> TRUE]
    ELSE IF c.data[1] = 128
         THEN [amplitude |-> 0, frequency |-> freq, note_on |-> FALSE]
         ELSE [amplitude |-> amp, frequency |-> freq, note_on |-> FALSE]

\* the indices of c.data the Note On / Note Off test and the frequency read, as the
\* source numbers them: data[0] always, data[1] when data[0] is 144
on_event_reads(c) ==
    {0} \cup (IF c.data[1] = 144 THEN {1} ELSE {})

\* let c: MidiCopy = e.into()
Convert ==
    /\ copy = NoCopy
    /\ copy' = MidiCopyFrom(raw)
    /\ UNCHANGED <<raw, interp, adapterVars, midiVars>>

\* the Note On / Note Off test on the copy, from the initial frequency and amplitude
Interpret ==
    /\ copy # NoCopy
    /\ ~interp.done
    /\ LET h == on_event(copy, 220000, 0)
       IN  interp' = [reads |-> on_event_reads(copy), amplitude |-> h.amplitude,
                      frequency |-> h.frequency, done |-> TRUE]
    /\ UNCHANGED <<raw, copy, adapterVars, midiVars>>

\* the next borrowed message
NextMessage ==
    /\ copy # NoCopy
    /\ raw' \in RawMidis
    /\ copy' = NoCopy
    /\ interp' = NoInterp
    /\ UNCHANGED <<adapterVars, midiVars>>

NextCopy ==
    \/ Convert
    \/ Interpret
    \/ NextMessage

SpecCopy == InitCopy /\ [][NextCopy]_vars

\* C4: MidiCopy::from of a message of n bytes yields len = min(n, MAX_MIDI), a data
\* array of MAX_MIDI bytes whose first len bytes are the source's first len bytes,
\* for n below, at and above MAX_MIDI; the conversion is defined for every message
\* (a longer source is truncated, never refused).
C4_CopyIsTruncatedPrefix ==
    /\ copy = NoCopy => ENABLED Convert
    /\ copy # NoCopy =>
          LET n == Len(raw.bytes)
          IN  /\ (n < MAX_MIDI => copy.len = n)
              /\ (n >= MAX_MIDI => copy.len = MAX_MIDI)
              /\ Len(copy.data) = MAX_MIDI
              /\ \A i \in 1..copy.len : copy.data[i] = raw.bytes[i]
              /\ copy.time = raw.time

\* C4 witness: [144, 64, 127, 99] has been converted, to 3 valid bytes [144, 64, 127].
C4_Witness ==
    /\ raw.bytes = <<144, 64, 127, 99>>
    /\ copy # NoCopy
    /\ copy.len = 3
    /\ copy.data = <<144, 64, 127>>

(* ------------------------ the midi_sine example ------------------------ *)
\* The events the input port presents: a Note On (key 69), a one-byte message,
\* a four-byte message (Note Off, one byte longer than MAX_MIDI).
MidiEvents ==
    { [time |-> 0, bytes |-> <<144, 69, 127>>],
      [time |-> 1, bytes |-> <<144>>],
      [time |-> 1, bytes |-> <<128, 69, 0, 99>>] }

\* the f64 frequency requests a control producer sends, in mHz
ControlValues == {330000, 550000}

\* a sender that waits for room: it returns only once the buffer has a free slot
send_blocking(q, item) ==
    [returns |-> Len(q) < OutCap, ok |-> TRUE, q |-> Append(q, item)]

\* a try_send that makes room by discarding the oldest item
try_send_drop_oldest(q, item) ==
    IF Len(q) < OutCap
    THEN [returns |-> TRUE, ok |-> TRUE, q |-> Append(q, item)]
    ELSE [returns |-> TRUE, ok |-> TRUE, q |-> Append(Tail(q), item)]

\* SyncSender::try_send on the sync_channel(64): returns at once; Err(Full) when
\* the buffer holds OutCap items, and the item is then discarded by `let _ =`
try_send(q, item) ==
    IF Len(q) < OutCap
    THEN [returns |-> TRUE, ok |-> TRUE, q |-> Append(q, item)]
    ELSE [returns |-> TRUE, ok |-> FALSE, q |-> q]

\* a receive that hands out the newest item first
recv_newest(q) == [item |-> q[Len(q)], q |-> SubSeq(q, 1, Len(q) - 1)]

\* Receiver::recv on a non-empty buffer: the oldest item
recv(q) == [item |-> Head(q), q |-> Tail(q)]

\* a try_recv that takes the newest request first
try_recv_newest(q) ==
    IF q = <<>> THEN [ok |-> FALSE, v |-> 0, q |-> q]
    ELSE [ok |-> TRUE, v |-> q[Len(q)], q |-> SubSeq(q, 1, Len(q) - 1)]

\* a try_recv that reports the oldest request and leaves it in the channel
try_recv_keep(q) ==
    IF q = <<>> THEN [ok |-> FALSE, v |-> 0, q |-> q]
    ELSE [ok |-> TRUE, v |-> Head(q), q |-> q]

\* crossbeam Receiver::try_recv on rx: the oldest request, or Err when empty
try_recv(q) ==
    IF q = <<>> THEN [ok |-> FALSE, v |-> 0, q |-> q]
    ELSE [ok |-> TRUE, v |-> Head(q), q |-> Tail(q)]

\* a writer that puts the Note Off at the block's end, frame n_frames
midi_writes_at_end(n) ==
    << [time |-> 0, bytes |-> <<144, 64, 127>>],
       [time |-> n, bytes |-> <<128, 64, 127>>] >>

\* the two put_p.write calls: Note On at frame 0, Note Off at frame n_frames / 2
midi_writes(n) ==
    << [time |-> 0, bytes |-> <<144, 64, 127>>],
       [time |-> n \div 2, bytes |-> <<128, 64, 127>>] >>

\* jack::ClosureProcessHandler::new(move |_, ps| { ... }): the closure is the
\* argument of new, that is the adapter's state
ExampleHandler == new("process_closure")

\* the same closure stored as the adapter's per-block behavior
ClosureAsProcessFn == with_process_fn(new("unit"), "process_closure")

InitMidi ==
    /\ handler \in {ExampleHandler, ClosureAsProcessFn}
    /\ phase = "activated"
    /\ AdapterUnused
    /\ CopyUnused
    /\ rtpc = "idle" /\ nblocks = 0 /\ remaining = 0
    /\ n_frames \in FrameSizes
    /\ sender_q = <<>> /\ sender_alive = TRUE /\ rx_q = <<>>
    /\ frequency = 220000 /\ amplitude = 0 /\ time = 0
    /\ midi_out = <<>> /\ audio_out = NoAudio
    /\ cpc = "recv" /\ printed = <<>> /\ mpc = "wait"
    /\ presented = 0 /\ offered = 0 /\ dropped = 0 /\ closure_runs = 0
    /\ npush = 0 /\ last_pushed = 0 /\ applied = 0 /\ ndrain = 0
    /\ block_drained = 0 /\ block_note_on = FALSE

\* The server runs a block on a handler whose process_fn is default_process_fn:
\* ClosureProcessHandler::process calls it and returns its Continue.
BlockDefault ==
    /\ phase = "activated" /\ rtpc = "idle" /\ nblocks < MaxBlocks
    /\ handler.process_fn = "default_process_fn"
    /\ \E k \in 0..(MaxEvents - presented) :
          LET r == process(handler, n_frames)
          IN  /\ handler' = r.self
              /\ phase' = after_directive(r.ret)
              /\ presented' = presented + k
    /\ nblocks' = nblocks + 1
    /\ UNCHANGED <<nwith, ncalls, supplied, init_inner, last, quit_seen, relayVars, copyVars>>
    /\ UNCHANGED <<rtpc, n_frames, remaining, frequency, amplitude, time, midi_out,
                   audio_out, closure_runs, block_drained, block_note_on>>
    /\ UNCHANGED <<sender_q, sender_alive, cpc, printed, offered, dropped, inVars, mpc>>

\* The server runs a block on a handler whose process_fn is the closure:
\* let show_p = midi_input.iter(ps)
BlockStart ==
    /\ phase = "activated" /\ rtpc = "idle" /\ nblocks < MaxBlocks
    /\ handler.process_fn = "process_closure"
    /\ \E k \in 0..(MaxEvents - presented) :
          /\ remaining' = k
          /\ presented' = presented + k
    /\ nblocks' = nblocks + 1
    /\ closure_runs' = closure_runs + 1
    /\ rtpc' = "iter"
    /\ midi_out' = <<>>
    /\ block_drained' = 0
    /\ block_note_on' = FALSE
    /\ UNCHANGED <<adapterVars, copyVars, inVars, mpc>>
    /\ UNCHANGED <<n_frames, frequency, amplitude, time, audio_out>>
    /\ UNCHANGED <<sender_q, sender_alive, cpc, printed, offered, dropped>>

\* one turn of `for e in show_p`: copy the event, offer the copy, act on its bytes
IterEvent ==
    /\ rtpc = "iter" /\ remaining > 0
    /\ \E e \in MidiEvents :
          LET c == MidiCopyFrom(e)
              s == try_send(sender_q, [id |-> offered + 1, len |-> c.len,
                                       data |-> c.data, time |-> c.time])
              h == on_event(c, frequency, amplitude)
          IN  /\ s.returns
              /\ sender_q' = s.q
              /\ dropped' = IF s.ok THEN dropped ELSE dropped + 1
              /\ amplitude' = h.amplitude
              /\ frequency' = h.frequency
              /\ block_note_on' = (block_note_on \/ h.note_on)
    /\ offered' = offered + 1
    /\ remaining' = remaining - 1
    /\ UNCHANGED <<adapterVars, copyVars, inVars, mpc>>
    /\ UNCHANGED <<rtpc, nblocks, n_frames, time, midi_out, audio_out, closure_runs,
                   block_drained>>
    /\ UNCHANGED <<sender_alive, cpc, printed, presented>>

\* the iterator is exhausted: write the two MIDI messages, take the audio slice
IterEnd ==
    /\ rtpc = "iter" /\ remaining = 0
    /\ midi_out' = midi_writes(n_frames)
    /\ rtpc' = "drain"
    /\ UNCHANGED <<adapterVars, copyVars, outVars, inVars, mpc>>
    /\ UNCHANGED <<nblocks, n_frames, remaining, frequency, amplitude, time, audio_out,
                   closure_runs, block_drained, block_note_on>>

\* while let Ok(f) = rx.try_recv() { time = 0.0; frequency = f; }
DrainRecv ==
    /\ rtpc = "drain"
    /\ LET r == try_recv(rx_q)
       IN  /\ r.ok
           /\ rx_q' = r.q
           /\ time' = 0
           /\ frequency' = r.v
           /\ applied' = r.v
           /\ ndrain' = ndrain + 1
           /\ block_drained' = r.v
    /\ UNCHANGED <<adapterVars, copyVars, outVars, mpc>>
    /\ UNCHANGED <<npush, last_pushed>>
    /\ UNCHANGED <<rtpc, nblocks, n_frames, remaining, amplitude, midi_out, audio_out,
                   closure_runs, block_note_on>>

\* rx.try_recv() reports an empty channel: the loop ends
DrainEmpty ==
    /\ rtpc = "drain"
    /\ ~try_recv(rx_q).ok
    /\ rtpc' = "write"
    /\ UNCHANGED <<adapterVars, copyVars, outVars, inVars, mpc>>
    /\ UNCHANGED <<nblocks, n_frames, remaining, frequency, amplitude, time, midi_out,
                   audio_out, closure_runs, block_drained, block_note_on>>

\* for v in out.iter_mut() { ... time += frame_t; }  jack::Control::Continue
WriteOutput ==
    /\ rtpc = "write"
    /\ audio_out' = [frequency |-> frequency, amplitude |-> amplitude,
                     time |-> time, frames |-> n_frames]
    /\ time' = time + n_frames
    /\ rtpc' = "idle"
    /\ phase' = after_directive(Continue)
    /\ UNCHANGED <<handler, nwith, ncalls, supplied, init_inner, last, quit_seen, relayVars>>
    /\ UNCHANGED <<copyVars, outVars, inVars, mpc>>
    /\ UNCHANGED <<nblocks, n_frames, remaining, frequency, amplitude, midi_out,
                   closure_runs, block_drained, block_note_on>>

\* the steps of the real-time thread inside a process invocation
RtStep == IterEvent \/ IterEnd \/ DrainRecv \/ DrainEmpty \/ WriteOutput

\* while let Ok(m) = receiver.recv() { println!("{:?}", m); }: an item is there
ConsumerRecv ==
    /\ cpc = "recv"
    /\ sender_q # <<>>
    /\ LET r == recv(sender_q)
       IN  /\ sender_q' = r.q
           /\ printed' = Append(printed, r.item.id)
    /\ UNCHANGED <<adapterVars, copyVars, rtVars, inVars, mpc>>
    /\ UNCHANGED <<sender_alive, cpc, presented, offered, dropped>>

\* receiver.recv() returns Err: the buffer is empty and the sender is dropped
ConsumerClosed ==
    /\ cpc = "recv"
    /\ sender_q = <<>>
    /\ ~sender_alive
    /\ cpc' = "done"
    /\ UNCHANGED <<adapterVars, copyVars, rtVars, inVars, mpc>>
    /\ UNCHANGED <<sender_q, sender_alive, printed, presented, offered, dropped>>

\* a control producer offers a frequency request to the in-channel; a full
\* channel refuses it
ControlPush ==
    /\ mpc = "wait"
    /\ npush < MaxPush
    /\ \E v \in ControlValues :
          IF Len(rx_q) < InCap
          THEN /\ rx_q' = Append(rx_q, v)
               /\ last_pushed' = v
          ELSE UNCHANGED <<rx_q, last_pushed>>
    /\ npush' = npush + 1
    /\ UNCHANGED <<adapterVars, copyVars, rtVars, outVars, mpc, applied, ndrain>>

\* io::stdin().read_line returns; active_client.deactivate().unwrap(): the server
\* stops invoking the handler (a callback in progress is let finish first), and the
\* handler returned by deactivate, a temporary, is dropped with the sender it owns
MainDeactivate ==
    /\ mpc = "wait"
    /\ rtpc = "idle"
    /\ phase' = "deactivated"
    /\ sender_alive' = FALSE
    /\ mpc' = "deactivated"
    /\ UNCHANGED <<handler, nwith, ncalls, supplied, init_inner, last, quit_seen, relayVars>>
    /\ UNCHANGED <<copyVars, rtVars, inVars>>
    /\ UNCHANGED <<sender_q, cpc, printed, presented, offered, dropped>>

\* main returns: the process exits and takes the printing thread with it
MainReturn ==
    /\ mpc = "deactivated"
    /\ mpc' = "exited"
    /\ cpc' = IF cpc = "done" THEN "done" ELSE "killed"
    /\ UNCHANGED <<adapterVars, copyVars, rtVars, inVars>>
    /\ UNCHANGED <<sender_q, sender_alive, printed, presented, offered, dropped>>

NextMidi ==
    \/ BlockDefault
    \/ BlockStart
    \/ IterEvent
    \/ IterEnd
    \/ DrainRecv
    \/ DrainEmpty
    \/ WriteOutput
    \/ ConsumerRecv
    \/ ConsumerClosed
    \/ ControlPush
    \/ MainDeactivate
    \/ MainReturn

SpecMidi == InitMidi /\ [][NextMidi]_vars

\* the example with the server's scheduling of its callback thread: an invocation
\* that has been started is run on until it returns
SpecMidiLive == InitMidi /\ [][NextMidi]_vars /\ WF_vars(RtStep)

(* ------------------------- claims: the example ------------------------- *)
\* C3: with the handler built as ClosureProcessHandler::new(closure), every block
\* invocation runs the process closure, so that once a block has returned every
\* event the input port held has been offered to the out-channel; and when the
\* program has ended every copy the channel accepted has been printed.
C3_EveryBlockRunsClosure ==
    /\ rtpc = "idle" => (closure_runs = nblocks /\ offered = presented)
    /\ mpc = "exited" => Len(printed) = offered - dropped

\* steps the process closure still has to take before it returns, counting only
\* what is in the channels now
RtMeasure ==
    CASE rtpc = "iter"  -> remaining + Len(rx_q) + 3
      [] rtpc = "drain" -> Len(rx_q) + 2
      [] rtpc = "write" -> 1
      [] OTHER          -> 0

\* C5: a started process invocation never waits: whatever the out-channel (empty,
\* partly full, full) and the in-channel (empty, non-empty) hold, a step of the
\* real-time thread is possible without any step of the printing thread or of a
\* control producer, and every such step brings the invocation closer to its return.
C5_CallbackNeverWaits ==
    /\ [](rtpc # "idle" => ENABLED RtStep)
    /\ [][RtStep => RtMeasure' < RtMeasure]_vars

\* C5 witness: the printing thread has received nothing, the out-channel is full,
\* an offered copy was refused, and the invocation has gone on to the drain loop
\* with a request waiting in the in-channel.
C5_Witness ==
    /\ rtpc = "drain"
    /\ printed = <<>>
    /\ Len(sender_q) = OutCap
    /\ dropped >= 1
    /\ rx_q # <<>>

\* C6: as long as nothing has been received, M offers leave min(M, OutCap) copies
\* in the out-channel, the first ones offered, and the other M - OutCap are
\* dropped; the offer itself is always possible.
C6_OverflowKeepsFirstK ==
    /\ printed = <<>> =>
          /\ Len(sender_q) = Min(offered, OutCap)
          /\ \A i \in 1..Len(sender_q) : sender_q[i].id = i
          /\ dropped = offered - Len(sender_q)
    /\ (rtpc = "iter" /\ remaining > 0) => ENABLED IterEvent

\* C6 witness: OutCap + 1 offers, no receive: OutCap copies retained, one dropped.
C6_Witness ==
    /\ printed = <<>>
    /\ offered = OutCap + 1
    /\ Len(sender_q) = OutCap
    /\ dropped = 1

\* C7: what the printing thread has received is a subsequence of what the callback
\* offered, in the order offered: ids strictly increase, each is an offered id, and
\* whatever is still queued was offered after everything received.
C7_DeliveredInOrder ==
    /\ \A i \in 1..Len(printed) : printed[i] \in 1..offered
    /\ \A i \in 2..Len(printed) : printed[i - 1] < printed[i]
    /\ \A i \in 1..Len(sender_q) :
          /\ sender_q[i].id \in 1..offered
          /\ i > 1 => sender_q[i - 1].id < sender_q[i].id
          /\ \A j \in 1..Len(printed) : printed[j] < sender_q[i].id

\* C7 witness: three copies offered, the third dropped, the first two received in
\* order.
C7_Witness ==
    /\ offered = 3
    /\ dropped = 1
    /\ printed = <<1, 2>>

\* C8: whenever the in-channel is empty again the last request applied is the last
\* one accepted; and when a block generates its audio after draining at least one
\* request, the frequency it uses is the last request drained in that block, also
\* when a Note On set the frequency earlier in the block.
C8_LastControlWins ==
    /\ (rx_q = <<>> /\ last_pushed # 0) => applied = last_pushed
    /\ (rtpc = "write" /\ block_drained # 0) => frequency = block_drained
    /\ (rtpc = "idle" /\ block_drained # 0) =>
          /\ audio_out.frequency = block_drained
          /\ audio_out.time = 0

\* C8 witness: two requests were accepted, a block saw a Note On and then drained
\* them, and generated its audio at the second request's frequency.
C8_Witness ==
    /\ rtpc = "idle"
    /\ npush = 2
    /\ last_pushed = 550000
    /\ block_note_on
    /\ block_drained = 550000
    /\ audio_out.frequency = 550000
    /\ audio_out.amplitude = 5
    /\ rx_q = <<>>

\* C10: after deactivate has dropped the handler the printing thread's loop ends by
\* observing the closed channel, having first received everything queued: it never
\* leaves the loop while the sender is alive or a copy is queued, and when the
\* program has ended the loop has been left.
C10_ConsumerLoopTerminates ==
    /\ cpc = "done" => (~sender_alive /\ sender_q = <<>>)
    /\ mpc = "exited" => (cpc = "done" /\ sender_q = <<>>)

(* ------------------------- claims: the adapter ------------------------- *)
\* the behavior each role must dispatch to: the one supplied last, else the default
ExpectedProcessFn == IF supplied.p = "none" THEN "default_process_fn" ELSE supplied.p
ExpectedBufferFn == IF supplied.b = "none" THEN "default_buffer_fn" ELSE supplied.b

\* C1: after any chain of with_buffer_fn / with_process_fn calls, a process
\* invocation calls exactly once the process behavior supplied last (its effect on
\* the state and its directive are that behavior's), a buffer_size invocation calls
\* exactly once the buffer behavior supplied last, and a role for which nothing was
\* supplied returns Continue.
C1_DispatchLastSupplied ==
    /\ last.role = "process" =>
          LET b == CallProcessFn(ExpectedProcessFn, last.pre, last.arg)
          IN  /\ last.invoked = <<ExpectedProcessFn>>
              /\ last.ret = b.ret
              /\ handler.inner = b.inner
              /\ (supplied.p = "none" => last.ret = Continue)
    /\ last.role = "buffer_size" =>
          LET b == CallBufferFn(ExpectedBufferFn, last.pre, last.arg)
          IN  /\ last.invoked = <<ExpectedBufferFn>>
              /\ last.ret = b.ret
              /\ handler.inner = b.inner
              /\ (supplied.b = "none" => last.ret = Continue)

\* C1 witness: a chain of three with_* calls, both roles supplied, and a process
\* invocation that returned the supplied behavior's Quit.
C1_Witness ==
    /\ nwith = 3
    /\ supplied.b = "b_set"
    /\ supplied.p = "p_limit"
    /\ last.role = "process"
    /\ last.ret = Quit

\* C2: an adapter built by new alone answers every process and buffer_size
\* invocation as the () handler does, with Continue and never Quit, and its stored
\* state stays the state given to new.
C2_DefaultsLikeUnit ==
    (supplied.b = "none" /\ supplied.p = "none" /\ last.role # "none") =>
        /\ last.ret = unit_process(last.arg)
        /\ last.ret # Quit
        /\ handler.inner = init_inner
        /\ last.pre = init_inner

\* C2 witness: a default adapter that has served both callbacks, several times.
C2_Witness ==
    /\ supplied.b = "none"
    /\ supplied.p = "none"
    /\ ncalls >= 3
    /\ last.role = "buffer_size"
    /\ init_inner = 2

\* C9: once a process invocation has returned Quit no further process or
\* buffer_size invocation happens; and an activated handler leaves the activated
\* state only through a Quit directive or the external deactivate call, so while
\* every invocation returns Continue the next block's invocation is possible.
C9_QuitStopsInvocations ==
    [][ /\ quit_seen => (ncalls' = ncalls /\ last' = last /\ handler' = handler)
        /\ (phase = "activated" /\ phase' # "activated") =>
              (quit_seen' \/ Deactivate \/ (last'.role = "buffer_size" /\ last'.ret = Quit))
        /\ (phase' = "activated" /\ ~quit_seen' /\ ncalls' < MaxCalls) =>
              (ENABLED ServerProcess)' ]_vars

\* C9 witness: two invocations continued, the third returned Quit and the handler
\* is deactivated.
C9_Witness ==
    /\ quit_seen
    /\ phase = "deactivated"
    /\ ncalls = 3
    /\ last.role = "process"
    /\ last.ret = Quit

\* C11: an adapter built on state 0 whose process behavior increments the state and
\* relays the new state makes, after N process invocations with no state-changing
\* buffer_size call between them, the values received and still queued read
\* 1, 2, ..., N in that order, and the stored state is N.
C11_RelayCountsUp ==
    (init_inner = 0 /\ supplied.p = "p_relay" /\ supplied.b # "b_set") =>
        /\ relay_got \o relay_q = [i \in 1..nproc |-> i]
        /\ handler.inner = nproc

\* C11 witness: five invocations, and the consumer has received 1, 2, 3, 4, 5.
C11_Witness ==
    /\ init_inner = 0
    /\ supplied.p = "p_relay"
    /\ nproc = 5
    /\ relay_got = <<1, 2, 3, 4, 5>>

\* C12: with_buffer_fn returns an adapter with the state and the process behavior of
\* the adapter it consumed and the given buffer behavior; with_process_fn returns
\* one with the state and the buffer behavior of the adapter it consumed and the
\* given process behavior; neither invokes a behavior, sends anything or counts as
\* a callback.
C12_WithReplacesOneBehavior ==
    [][ /\ WithBufferFn =>
              /\ handler'.inner = handler.inner
              /\ handler'.process_fn = handler.process_fn
              /\ handler'.buffer_fn = supplied'.b
              /\ handler'.buffer_fn \in UserBufferFns
              /\ UNCHANGED <<last, ncalls, nproc, relay_q, quit_seen>>
        /\ WithProcessFn =>
              /\ handler'.inner = handler.inner
              /\ handler'.buffer_fn = handler.buffer_fn
              /\ handler'.process_fn = supplied'.p
              /\ handler'.process_fn \in UserProcessFns
              /\ UNCHANGED <<last, ncalls, nproc, relay_q, quit_seen>> ]_vars

\* C12 witness: both behaviors were supplied in a chain of two calls, so one call was
\* made on an adapter that already held the other behavior; both are stored, the
\* state is still the one given to new, and no callback has been made.
C12_Witness ==
    /\ nwith = 2
    /\ supplied = [b |-> "b_set", p |-> "p_inc"]
    /\ handler = [inner |-> 2, buffer_fn |-> "b_set", process_fn |-> "p_inc"]
    /\ init_inner = 2
    /\ last.role = "none"

\* C13: when the callback decides Note On / Note Off and computes the frequency
\* from a copy, every index of data it reads is below the copy's len, for messages
\* of every length including 0 and 1.
C13_ReadsBelowLen ==
    interp.done => \A i \in interp.reads : i < copy.len

\* C14: whatever block size the server presents, the messages a block has written
\* to midi_output are the Note On at frame 0 and the Note Off at frame n_frames / 2,
\* each at a frame offset below n_frames, in non-decreasing offset order.
C14_MidiOffsetsInBlock ==
    midi_out # <<>> =>
        /\ Len(midi_out) = 2
        /\ midi_out[1].time = 0
        /\ \A i \in 1..Len(midi_out) : midi_out[i].time >= 0 /\ midi_out[i].time < n_frames
        /\ \A i \in 2..Len(midi_out) : midi_out[i - 1].time <= midi_out[i].time
        /\ 2 * midi_out[2].time <= n_frames
        /\ n_frames < 2 * midi_out[2].time + 2

\* C14 witness: the smallest block, one frame: both messages written at offset 0.
C14_Witness ==
    /\ n_frames = 1
    /\ rtpc = "drain"
    /\ Len(midi_out) = 2
    /\ midi_out[2].time = 0
    /\ midi_out[2].bytes = <<128, 64, 127>>

\* C15: under every interleaving of the callback's offers and the printing thread's
\* receives the out-channel never holds more than OutCap copies; an offer is refused
\* exactly when the channel holds OutCap copies at that moment, and then leaves the
\* channel as it was; an offer made while there is room appends the copy.
C15_DropIffFull ==
    /\ [](Len(sender_q) <= OutCap)
    /\ [][ offered' = offered + 1 =>
              /\ (dropped' = dropped + 1) <=> (Len(sender_q) = OutCap)
              /\ (dropped' = dropped) <=> (Len(sender_q) < OutCap)
              /\ Len(sender_q) = OutCap => sender_q' = sender_q
              /\ Len(sender_q) < OutCap =>
                    /\ Len(sender_q') = Len(sender_q) + 1
                    /\ SubSeq(sender_q', 1, Len(sender_q)) = sender_q
                    /\ sender_q'[Len(sender_q')].id = offered' ]_vars

\* C15 witness: two copies filled the channel, a third was refused, and the
\* printing thread has since received the first.
C15_Witness ==
    /\ offered = 3
    /\ dropped = 1
    /\ printed = <<1>>
    /\ Len(sender_q) = 1
    /\ sender_q[1].id = 2

\* C16: both behaviors work on the one stored state: every callback, process or
\* buffer_size, starts from the state the previous step left and leaves the state
\* its behavior produced from it, so a change made by one role is seen by the
\* other; and a step that is no callback leaves the state alone.
C16_OneSharedState ==
    [][ /\ ncalls' = ncalls => handler'.inner = handler.inner
        /\ ncalls' = ncalls + 1 =>
              /\ last'.pre = handler.inner
              /\ last'.role = "process" =>
                    handler'.inner =
                        CallProcessFn(handler.process_fn, handler.inner, last'.arg).inner
              /\ last'.role = "buffer_size" =>
                    handler'.inner =
                        CallBufferFn(handler.buffer_fn, handler.inner, last'.arg).inner ]_vars

\* C16 witness: from state 0, a buffer_size invocation stored the size 2 and the
\* process invocation after it started from 2 and left 3.
C16_Witness ==
    /\ init_inner = 0
    /\ supplied = [b |-> "b_set", p |-> "p_inc"]
    /\ ncalls = 2
    /\ last.role = "process"
    /\ last.pre = 2
    /\ handler.inner = 3

\* C17: the drain loop of a block terminates: its body has run at most as often
\* as requests were pushed, the attempt that ends the loop leaves the in-channel
\* empty, and a block that has reached the loop goes on to leave it and to write
\* its output.
C17_DrainLoopTerminates ==
    /\ [](ndrain + Len(rx_q) <= npush)
    /\ [][(rtpc = "drain" /\ rtpc' # "drain") => (rtpc' = "write" /\ rx_q' = <<>>)]_vars
    /\ (rtpc = "drain") ~> (rtpc = "idle" /\ audio_out # NoAudio)

\* C17 witness: two requests were pushed, the drain loop of the first block has
\* run its body twice and has left an empty in-channel.
C17_Witness ==
    /\ nblocks = 1
    /\ npush = 2
    /\ ndrain = 2
    /\ rtpc = "write"
    /\ rx_q = <<>>
====
